---- MODULE Spec2Model ----
(***************************************************************************)
(* postmodel/sqldb/postgres.py: PostgresEngine (one engine, one logical    *)
(* database name), its PooledTransactionContext objects, the context-local *)
(* registry of transacted connections, and the asyncpg pool and database   *)
(* the engine drives.  Every asyncio task is one execution context; a task *)
(* advances from one await to the next in a single step.                   *)
(***************************************************************************)
EXTENDS Integers, Sequences, FiniteSets, TLC

\* Bounds of the model.
NTasks == 2
MaxCtx == 2
MaxSize == 2
MaxPools == 2

Tasks == 1..NTasks
Ctxs == 1..MaxCtx
PoolIds == 1..MaxPools
\* self._pool = None
NoPool == 0
\* a physical connection: (pool, slot); NoConn is None
Conns == PoolIds \X (1..MaxSize)
NoConn == <<0, 0>>
\* a row is known by the transaction context it was written in; the rows
\* written outside any are not followed

\* the five public query operations; execute_query splits on the statement text
QueryOps == {"execute_insert", "execute_many", "execute_query_update",
             "execute_query_select", "execute_query_dict", "execute_script"}
WriteOps == {"execute_insert", "execute_many"}
ReadOps == {"execute_query_select", "execute_query_dict"}
\* what a driver call can do: succeed, or fail in one of asyncpg's error classes
DriverOutcomes == {"ok", "syntax", "integrity", "txstate", "other"}

\* statement texts and driver status strings, as sequences of characters
NoText == << >>
UPDATE == <<"U", "P", "D", "A", "T", "E">>
DELETE == <<"D", "E", "L", "E", "T", "E">>
Q_UPDATE == <<"U", "P", "D", "A", "T", "E", " ", "t">>
Q_DELETE == <<"D", "E", "L", "E", "T", "E", " ", "t">>
Q_SELECT == <<"S", "E", "L", "E", "C", "T", " ", "t">>
Q_update == <<"u", "p", "d", "a", "t", "e", " ", "t">>
Q_sp_UPDATE == <<" ", "U", "P", "D", "A", "T", "E", " ", "t">>
Queries == {Q_UPDATE, Q_DELETE, Q_SELECT, Q_update, Q_sp_UPDATE}
S_UPDATE_2 == <<"U", "P", "D", "A", "T", "E", " ", "2">>
S_DELETE_12 == <<"D", "E", "L", "E", "T", "E", " ", "1", "2">>
S_UPDATE == <<"U", "P", "D", "A", "T", "E">>
S_UPDATE_x == <<"U", "P", "D", "A", "T", "E", " ", "x">>
S_UPDATE__2 == <<"U", "P", "D", "A", "T", "E", " ", " ", "2">>
Statuses == {S_UPDATE_2, S_DELETE_12, S_UPDATE, S_UPDATE_x, S_UPDATE__2}

VARIABLES
    _pool,      \* PostgresEngine._pool: NoPool or a pool id
    poolSt,     \* asyncpg pool: "none" (not created), "open", "closing", "closed"
    connSt,     \* physical connection: "free" (in its pool), "out", "dead"
    inTx,       \* connection has an open server transaction
    pending,    \* rows written in the connection's open transaction
    committed,  \* rows committed to the database
    dbExists,   \* the target database exists
    max_size,   \* the pool's configured max_size
    reg,        \* TransactedConnections, per execution context (for self.name)
    ctxs,       \* the PooledTransactionContext objects
    pc,         \* where each task is suspended
    stack,      \* the async-with blocks each task is inside, innermost last
    cur,        \* the locals of the call a task is suspended in
    res         \* the call that ended in the last step, and how

vars == <<_pool, poolSt, connSt, inTx, pending, committed, dbExists, max_size,
          reg, ctxs, pc, stack, cur, res>>

\* PooledTransactionContext.__init__, plus the history of the object
NewCtx(t, p) ==
    [owner |-> t, pool |-> p, connection |-> NoConn, done |-> FALSE,
     token |-> NoConn, transaction |-> "none",
     ncommit |-> 0, nrollback |-> 0, nrelease |-> 0, wrote |-> FALSE]

\* the locals of one call of a task; for _create_pool what it has done (how
\* the first asyncpg.create_pool ended, the create_pool calls and the
\* db_create calls made); for a query operation its statement text, how the
\* driver call ended, the status string it returned and the count returned
NoCall == [op |-> "none", ctx |-> 0, conn |-> NoConn, pool |-> NoPool,
           pooled |-> FALSE, first |-> "none", ncreate |-> 0, ndbcreate |-> 0,
           query |-> NoText, status |-> NoText, n |-> 0, outcome |-> "none"]

\* no call ended in the last step
NoEvent == [task |-> 0, op |-> "none", ctx |-> 0, err |-> "none", rows |-> {},
            first |-> "none", ncreate |-> 0, ndbcreate |-> 0,
            query |-> NoText, status |-> NoText, n |-> 0, outcome |-> "none"]

\* the state after PostgresEngine.__init__, the configured max_size being
\* one of sizes
InitWith(sizes) ==
    /\ _pool = NoPool
    /\ poolSt = [p \in PoolIds |-> "none"]
    /\ connSt = [k \in Conns |-> "free"]
    /\ inTx = [k \in Conns |-> FALSE]
    /\ pending = [k \in Conns |-> {}]
    /\ committed = {}
    /\ dbExists \in BOOLEAN
    /\ max_size \in sizes
    /\ reg = [t \in Tasks |-> NoConn]
    /\ ctxs = [c \in Ctxs |-> NewCtx(0, NoPool)]
    /\ pc = [t \in Tasks |-> "idle"]
    /\ stack = [t \in Tasks |-> << >>]
    /\ cur = [t \in Tasks |-> NoCall]
    /\ res = NoEvent

Init == InitWith({MaxSize})

Top(t) == IF stack[t] = << >> THEN 0 ELSE stack[t][Len(stack[t])]
Pop(s) == SubSeq(s, 1, Len(s) - 1)
Min(S) == CHOOSE x \in S : \A y \in S : x <= y
FreeConns(p) == {k \in Conns : k[1] = p /\ k[2] <= max_size /\ connSt[k] = "free"}
\* the connection the pool hands out next: its queue is kept in slot order
NextConn(p) == <<p, Min({k[2] : k \in FreeConns(p)})>>
FreeCtxs == {c \in Ctxs : ctxs[c].owner = 0}
UnusedPools == {p \in PoolIds : poolSt[p] = "none"}
\* the tasks inside _create_pool
Creating == {t \in Tasks : pc[t] \in {"init_create", "init_dbcreate", "init_retry"}}
\* an acquisition with timeout=None that finds the pool open and every
\* connection out waits; one that fails never waited for a slot
acquire_fails_any(p) == TRUE

\* pool.acquire with timeout=None can raise: the pool is closing or closed, or
\* the connection it is about to hand out cannot be made or reset
acquire_fails(p) == poolSt[p] # "open" \/ FreeConns(p) # {}

\* the call c of task t ends with error err ("none": it returns) and the
\* task runs on
Return(t, c, err, rows) ==
    /\ res' = [NoEvent EXCEPT !.task = t, !.op = c.op, !.ctx = c.ctx,
                   !.err = err, !.rows = rows, !.first = c.first,
                   !.ncreate = c.ncreate, !.ndbcreate = c.ndbcreate,
                   !.query = c.query, !.status = c.status, !.n = c.n,
                   !.outcome = c.outcome]
    /\ cur' = [cur EXCEPT ![t] = NoCall]
    /\ pc' = [pc EXCEPT ![t] = "idle"]
\* the call c of task t suspends at an await
Await(t, label, c) ==
    /\ pc' = [pc EXCEPT ![t] = label]
    /\ cur' = [cur EXCEPT ![t] = c]
    /\ res' = NoEvent

----
\* TransactedConnections (postmodel/sqldb/base.py): a context-local mapping

\* TransactedConnections.get(name) in task t
TransactedConnections_get(t) == reg[t]

\* TransactedConnections.set(name, proxy): the new registry
TransactedConnections_set(t, k) == [reg EXCEPT ![t] = k]

\* TransactedConnections.reset(name, token): the new registry
TransactedConnections_reset(t, token) == [reg EXCEPT ![t] = token]

\* a lookup in a registry that is one mapping for the whole process
current_transacted_conn_shared(t) ==
    IF reg[t] # NoConn THEN reg[t]
    ELSE IF \E u \in Tasks : reg[u] # NoConn
    THEN reg[CHOOSE u \in Tasks : reg[u] # NoConn]
    ELSE NoConn

\* PostgresEngine._current_transacted_conn
current_transacted_conn(t) == TransactedConnections_get(t)

----
\* the database behind the driver: a statement on connection k sees the
\* committed rows and the rows of k's own open transaction
Visible(k) == committed \cup pending[k]

\* connection k goes back to its pool: asyncpg resets it (rolls back)
Released(k) ==
    /\ connSt' = [connSt EXCEPT ![k] = IF @ = "out" THEN "free" ELSE @]
    /\ inTx' = [inTx EXCEPT ![k] = FALSE]
    /\ pending' = [pending EXCEPT ![k] = {}]

----
\* PostgresEngine.in_transaction
in_transaction_error == "Exception"

in_transaction(t) ==
    /\ pc[t] = "idle"
    /\ IF current_transacted_conn(t) # NoConn
       THEN /\ Return(t, [NoCall EXCEPT !.op = "in_transaction"],
                        in_transaction_error, {})
            /\ UNCHANGED ctxs
       ELSE /\ FreeCtxs # {}
            /\ ctxs' = [ctxs EXCEPT ![Min(FreeCtxs)] = NewCtx(t, _pool)]
            /\ Return(t, [NoCall EXCEPT !.op = "in_transaction",
                              !.ctx = Min(FreeCtxs)], "none", {})
    /\ UNCHANGED <<_pool, poolSt, connSt, inTx, pending, committed, dbExists, max_size,
                   reg, stack>>

\* the guard without "or self.done"
aenter_guard_not_done(c) == ctxs[c].connection # NoConn

\* the guard without "self.connection is not None"
aenter_guard_not_active(c) == ctxs[c].done

\* PooledTransactionContext.__aenter__: the reuse guard
aenter_guard(c) == ctxs[c].connection # NoConn \/ ctxs[c].done

\* PooledTransactionContext.__aenter__, to its first await
aenter(t, c) ==
    /\ pc[t] = "idle"
    /\ ctxs[c].owner = t
    /\ IF aenter_guard(c)
       THEN Return(t, [NoCall EXCEPT !.op = "aenter", !.ctx = c],
                   "Exception", {})
       ELSE IF ctxs[c].pool = NoPool
       THEN Return(t, [NoCall EXCEPT !.op = "aenter", !.ctx = c],
                   "AttributeError", {})
       ELSE Await(t, "enter_acquire",
                  [NoCall EXCEPT !.op = "aenter", !.ctx = c,
                      !.pool = ctxs[c].pool])
    /\ UNCHANGED <<_pool, poolSt, connSt, inTx, pending, committed, dbExists, max_size,
                   reg, ctxs, stack>>

\* __aenter__ resumes with a connection: the transaction object, the proxy,
\* the registry binding, then the await of transaction.start()
aenter_acquired(t) ==
    /\ pc[t] = "enter_acquire"
    /\ poolSt[cur[t].pool] = "open"
    /\ FreeConns(cur[t].pool) # {}
    /\ LET k == NextConn(cur[t].pool) IN
        /\ connSt' = [connSt EXCEPT ![k] = "out"]
        /\ ctxs' = [ctxs EXCEPT ![cur[t].ctx] =
                       [@ EXCEPT !.connection = k, !.transaction = "new",
                                 !.token = reg[t]]]
        /\ reg' = TransactedConnections_set(t, k)
        /\ Await(t, "enter_start", [cur[t] EXCEPT !.conn = k])
    /\ UNCHANGED <<_pool, poolSt, inTx, pending, committed, dbExists, max_size, stack>>

\* pool._acquire raises (the pool is closing or closed, or no connection
\* can be made)
aenter_acquire_failed(t) ==
    /\ pc[t] = "enter_acquire"
    /\ acquire_fails(cur[t].pool)
    /\ Return(t, cur[t], "DriverError", {})
    /\ UNCHANGED <<_pool, poolSt, connSt, inTx, pending, committed, dbExists, max_size,
                   reg, ctxs, stack>>

\* transaction.start() returns or raises
aenter_started(t, ok) ==
    /\ pc[t] = "enter_start"
    /\ ok => connSt[cur[t].conn] = "out"
    /\ IF ok
       THEN /\ inTx' = [inTx EXCEPT ![cur[t].conn] = TRUE]
            /\ ctxs' = [ctxs EXCEPT ![cur[t].ctx].transaction = "started"]
            /\ stack' = [stack EXCEPT ![t] = Append(@, cur[t].ctx)]
            /\ Return(t, cur[t], "none", {})
       ELSE /\ ctxs' = [ctxs EXCEPT ![cur[t].ctx].transaction = "failed"]
            /\ Return(t, cur[t], "DriverError", {})
            /\ UNCHANGED <<inTx, stack>>
    /\ UNCHANGED <<_pool, poolSt, connSt, pending, committed, dbExists, max_size, reg>>

\* PooledTransactionContext.__aexit__, to its first await: the async-with
\* block of the innermost entered context ends, its body having raised or not
aexit(t, raised) ==
    /\ pc[t] = "idle"
    /\ stack[t] # << >>
    /\ ctxs' = [ctxs EXCEPT ![Top(t)] =
                   [@ EXCEPT !.wrote = FALSE,
                             !.nrollback = IF raised THEN @ + 1 ELSE @,
                             !.ncommit = IF raised THEN @ ELSE @ + 1]]
    /\ Await(t, IF raised THEN "exit_rollback" ELSE "exit_commit",
             [NoCall EXCEPT !.op = "aexit", !.ctx = Top(t),
                 !.conn = ctxs[Top(t)].connection])
    /\ UNCHANGED <<_pool, poolSt, connSt, inTx, pending, committed, dbExists, max_size,
                   reg, stack>>

\* __aexit__ after the commit or the rollback: done, the local reference,
\* the registry, then the await of pool.release(con)
aexit_cleanup(t, state) ==
    /\ ctxs' = [ctxs EXCEPT ![cur[t].ctx] =
                   [@ EXCEPT !.done = TRUE, !.connection = NoConn,
                             !.transaction = state]]
    /\ reg' = TransactedConnections_reset(t, ctxs[cur[t].ctx].token)
    /\ Await(t, "exit_release", cur[t])

\* transaction.rollback() returns or raises; a failure is swallowed
aexit_rolledback(t, ok) ==
    /\ pc[t] = "exit_rollback"
    /\ ok => connSt[cur[t].conn] = "out"
    /\ IF ok
       THEN /\ inTx' = [inTx EXCEPT ![cur[t].conn] = FALSE]
            /\ pending' = [pending EXCEPT ![cur[t].conn] = {}]
       ELSE UNCHANGED <<inTx, pending>>
    /\ aexit_cleanup(t, IF ok THEN "rolledback" ELSE "failed")
    /\ UNCHANGED <<_pool, poolSt, connSt, committed, dbExists, max_size, stack>>

\* transaction.commit() returns, or raises and the error leaves __aexit__
aexit_committed(t, ok) ==
    /\ pc[t] = "exit_commit"
    /\ ok => connSt[cur[t].conn] = "out"
    /\ inTx' = [inTx EXCEPT ![cur[t].conn] = FALSE]
    /\ pending' = [pending EXCEPT ![cur[t].conn] = {}]
    /\ IF ok
       THEN /\ committed' = committed \cup pending[cur[t].conn]
            /\ aexit_cleanup(t, "committed")
            /\ UNCHANGED stack
       ELSE /\ ctxs' = [ctxs EXCEPT ![cur[t].ctx].transaction = "failed"]
            /\ stack' = [stack EXCEPT ![t] = Pop(@)]
            /\ Return(t, cur[t], "DriverError", {})
            /\ UNCHANGED <<committed, reg>>
    /\ UNCHANGED <<_pool, poolSt, connSt, dbExists, max_size>>

\* pool.release(con) returns and __aexit__ with it
aexit_released(t) ==
    /\ pc[t] = "exit_release"
    /\ Released(cur[t].conn)
    /\ ctxs' = [ctxs EXCEPT ![cur[t].ctx].nrelease = @ + 1]
    /\ stack' = [stack EXCEPT ![t] = Pop(@)]
    /\ Return(t, cur[t], IF ctxs[cur[t].ctx].nrollback > 0 THEN "BodyError"
                         ELSE "none", {})
    /\ UNCHANGED <<_pool, poolSt, committed, dbExists, max_size, reg>>

----
\* PostgresEngine.acquire_connection: what it hands to the async-with of a
\* query operation.  self._create_pool() is called and not awaited: the
\* coroutine never runs and self._pool stays as it was.
acquire_connection(t) ==
    IF current_transacted_conn(t) # NoConn
    THEN [kind |-> "wrapper", conn |-> current_transacted_conn(t), pool |-> NoPool]
    ELSE IF _pool = NoPool
    THEN [kind |-> "AttributeError", conn |-> NoConn, pool |-> NoPool]
    ELSE [kind |-> "pool", conn |-> NoConn, pool |-> _pool]

\* a decorator that lets every driver error through
translate_nothing(outcome) == IF outcome = "ok" THEN "none" ELSE "DriverError"

\* translate_exceptions: the error a driver failure leaves the operation as
translate_exceptions(outcome) ==
    CASE outcome = "ok" -> "none"
      [] outcome = "syntax" -> "OperationalError"
      [] outcome = "integrity" -> "IntegrityError"
      [] outcome = "txstate" -> "TransactionManagementError"
      [] OTHER -> "DriverError"

\* str.startswith
startswith(s, prefix) ==
    Len(s) >= Len(prefix) /\ SubSeq(s, 1, Len(prefix)) = prefix

\* str.split(" "): the pieces between single spaces, empty ones included
RECURSIVE split(_)
split(s) ==
    IF \A i \in 1..Len(s) : s[i] # " "
    THEN <<s>>
    ELSE LET i == Min({j \in 1..Len(s) : s[j] = " "})
         IN  <<SubSeq(s, 1, i - 1)>> \o split(SubSeq(s, i + 1, Len(s)))

Digits == {"0", "1", "2", "3", "4", "5", "6", "7", "8", "9"}
DigitValue(c) ==
    CASE c = "0" -> 0 [] c = "1" -> 1 [] c = "2" -> 2 [] c = "3" -> 3
      [] c = "4" -> 4 [] c = "5" -> 5 [] c = "6" -> 6 [] c = "7" -> 7
      [] c = "8" -> 8 [] c = "9" -> 9

\* int(token) raises unless the token is a decimal numeral (no text here has
\* a sign, an underscore or surrounding whitespace)
int_raises(token) == token = << >> \/ \E i \in 1..Len(token) : token[i] \notin Digits

RECURSIVE int(_)
int(token) ==
    IF token = << >> THEN 0
    ELSE 10 * int(SubSeq(token, 1, Len(token) - 1)) + DigitValue(token[Len(token)])

\* execute_query: try: rows_affected = int(res.split(" ")[1])
\* except Exception: rows_affected = 0
rows_affected(status) ==
    LET tokens == split(status)
    IN  IF Len(tokens) < 2 \/ int_raises(tokens[2]) THEN 0 ELSE int(tokens[2])

\* an execute_query that fetches whatever the text
execute_query_fetch(query) == "execute_query_select"

\* execute_query: the branch taken for a statement text
execute_query(query) ==
    IF startswith(query, UPDATE) \/ startswith(query, DELETE)
    THEN "execute_query_update" ELSE "execute_query_select"

\* the statement texts an operation is followed with: those of its branch for
\* execute_query, none for the others, whose text decides nothing
UpdateQueries == {q \in Queries : execute_query(q) = "execute_query_update"}
QueriesOf(op) ==
    IF op = "execute_query_update" THEN UpdateQueries
    ELSE IF op = "execute_query_select" THEN Queries \ UpdateQueries
    ELSE {NoText}

\* the status strings a driver call is followed with: only connection.execute
\* in execute_query has its status read
StatusesOf(op, outcome) ==
    IF op = "execute_query_update" /\ outcome = "ok" THEN Statuses ELSE {NoText}

\* a query operation, to its first await: the five operations alike enter
\* the scoped acquisition; which of them it is shows at its driver call
execute(t) ==
    /\ pc[t] = "idle"
    /\ LET a == acquire_connection(t)
           c == [NoCall EXCEPT !.op = "execute", !.ctx = Top(t), !.conn = a.conn,
                               !.pool = a.pool, !.pooled = (a.kind = "pool")]
       IN  CASE a.kind = "wrapper" -> Await(t, "q_run", c)
             [] a.kind = "pool" -> Await(t, "q_acquire", c)
             [] OTHER -> Return(t, c, "AttributeError", {})
    /\ UNCHANGED <<_pool, poolSt, connSt, inTx, pending, committed, dbExists, max_size,
                   reg, ctxs, stack>>

\* pool.acquire().__aenter__ returns a free connection
execute_acquired(t) ==
    /\ pc[t] = "q_acquire"
    /\ poolSt[cur[t].pool] = "open"
    /\ FreeConns(cur[t].pool) # {}
    /\ LET k == NextConn(cur[t].pool) IN
        /\ connSt' = [connSt EXCEPT ![k] = "out"]
        /\ Await(t, "q_run", [cur[t] EXCEPT !.conn = k])
    /\ UNCHANGED <<_pool, poolSt, inTx, pending, committed, dbExists, max_size,
                   reg, ctxs, stack>>

\* pool.acquire().__aenter__ raises
execute_acquire_failed(t) ==
    /\ pc[t] = "q_acquire"
    /\ acquire_fails(cur[t].pool)
    /\ Return(t, cur[t], "DriverError", {})
    /\ UNCHANGED <<_pool, poolSt, connSt, inTx, pending, committed, dbExists, max_size,
                   reg, ctxs, stack>>

\* the one driver call of the operation, on the connection it was handed,
\* and the end of the scoped acquisition: pool.acquire().__aexit__ releases a
\* pooled connection, the wrapper's __aexit__ does nothing
execute_run(t, op, query, status, outcome) ==
    /\ pc[t] = "q_run"
    /\ connSt[cur[t].conn] = "dead" => outcome = "other"
    /\ IF op \in {"execute_query_update", "execute_query_select"}
       THEN op = execute_query(query)
       ELSE query = NoText
    /\ (op = "execute_query_update" /\ outcome = "ok") \/ status = NoText
    /\ LET k == cur[t].conn
           wr == outcome = "ok" /\ op \in WriteOps /\ cur[t].ctx # 0
           tx == wr /\ inTx[k] /\ ~cur[t].pooled
       IN  /\ pending' = IF cur[t].pooled THEN [pending EXCEPT ![k] = {}]
                         ELSE IF tx THEN [pending EXCEPT ![k] = @ \cup {cur[t].ctx}]
                         ELSE pending
           /\ committed' = IF wr /\ ~inTx[k]
                           THEN committed \cup {cur[t].ctx} ELSE committed
           /\ ctxs' = IF wr
                      THEN [ctxs EXCEPT ![cur[t].ctx].wrote = TRUE] ELSE ctxs
           /\ connSt' = IF cur[t].pooled /\ connSt[k] = "out"
                        THEN [connSt EXCEPT ![k] = "free"] ELSE connSt
           /\ inTx' = IF cur[t].pooled THEN [inTx EXCEPT ![k] = FALSE] ELSE inTx
           /\ Return(t, [cur[t] EXCEPT
                            !.op = op, !.outcome = outcome, !.status = status,
                            !.query = IF outcome = "ok" THEN query ELSE NoText,
                            !.n = IF outcome # "ok" THEN 0
                                  ELSE IF op = "execute_query_update"
                                  THEN rows_affected(status)
                                  ELSE IF op = "execute_query_select"
                                  THEN Cardinality(Visible(k)) ELSE 0],
                     translate_exceptions(outcome),
                     IF outcome = "ok" /\ op \in ReadOps THEN Visible(k) ELSE {})
    /\ UNCHANGED <<_pool, poolSt, dbExists, max_size, reg, stack>>

----
\* PostgresEngine.init and _create_pool, to the await of asyncpg.create_pool
init(t) ==
    /\ pc[t] = "idle"
    /\ IF _pool # NoPool
       THEN Return(t, [NoCall EXCEPT !.op = "init", !.pool = _pool], "none", {})
       ELSE /\ Cardinality(UnusedPools) > Cardinality(Creating)
            /\ Await(t, "init_create", [NoCall EXCEPT !.op = "init", !.ncreate = 1])
    /\ UNCHANGED <<_pool, poolSt, connSt, inTx, pending, committed, dbExists, max_size,
                   reg, ctxs, stack>>

\* asyncpg.create_pool returns a new pool, which _create_pool stores
pool_created(t, c) ==
    /\ UnusedPools # {}
    /\ poolSt' = [poolSt EXCEPT ![Min(UnusedPools)] = "open"]
    /\ _pool' = Min(UnusedPools)
    /\ Return(t, [c EXCEPT !.pool = Min(UnusedPools)], "none", {})

\* a handler that creates the database after any failure
creates_db_on_any_failure(outcome) == outcome # "ok"

\* except asyncpg.InvalidCatalogNameError: if create_db (True in every call)
creates_db(outcome) == outcome = "nodb"

\* the first asyncpg.create_pool ends: a pool, InvalidCatalogNameError (and
\* db_create is awaited), or another failure
create_pool_done(t, outcome) ==
    /\ pc[t] = "init_create"
    /\ outcome = "ok" => dbExists
    /\ outcome = "nodb" => ~dbExists
    /\ LET c == [cur[t] EXCEPT !.first = outcome] IN
        IF outcome = "ok"
        THEN pool_created(t, c)
        ELSE IF creates_db(outcome)
        THEN /\ Await(t, "init_dbcreate", [c EXCEPT !.ndbcreate = @ + 1])
             /\ UNCHANGED <<_pool, poolSt>>
        ELSE /\ Return(t, c, "DBConnectionError", {})
             /\ UNCHANGED <<_pool, poolSt>>
    /\ UNCHANGED <<connSt, inTx, pending, committed, dbExists, max_size, reg, ctxs, stack>>

\* db_create ends: the database exists now, or OperationalError
db_create_done(t, ok) ==
    /\ pc[t] = "init_dbcreate"
    /\ ok => ~dbExists
    /\ IF ok
       THEN /\ dbExists' = TRUE
            /\ Await(t, "init_retry", [cur[t] EXCEPT !.ncreate = @ + 1])
       ELSE /\ Return(t, cur[t], "OperationalError", {})
            /\ UNCHANGED dbExists
    /\ UNCHANGED <<_pool, poolSt, connSt, inTx, pending, committed, max_size,
                   reg, ctxs, stack>>

\* the second asyncpg.create_pool ends: a pool, or the driver's error
create_pool_retry_done(t, ok) ==
    /\ pc[t] = "init_retry"
    /\ IF ok
       THEN pool_created(t, cur[t])
       ELSE /\ Return(t, cur[t], "DriverError", {})
            /\ UNCHANGED <<_pool, poolSt>>
    /\ UNCHANGED <<connSt, inTx, pending, committed, dbExists, max_size, reg, ctxs, stack>>

\* PostgresEngine.close and _close, to the await of pool.close()
close(t) ==
    /\ pc[t] = "idle"
    /\ IF _pool = NoPool
       THEN /\ Return(t, [NoCall EXCEPT !.op = "close"], "none", {})
            /\ UNCHANGED poolSt
       ELSE /\ poolSt' = [poolSt EXCEPT ![_pool] = IF @ = "open" THEN "closing" ELSE @]
            /\ Await(t, "closing", [NoCall EXCEPT !.op = "close", !.pool = _pool])
    /\ UNCHANGED <<_pool, connSt, inTx, pending, committed, dbExists, max_size, reg,
                   ctxs, stack>>

\* _close leaving self._pool as it was
pool_after_close_kept == _pool

\* _close: self._pool = None
pool_after_close == NoPool

\* pool.close() returns once every connection is back, or the 10 s pass
\* (connections were still out, or were ended by another call's terminate
\* while this one waited) and self._pool.terminate() ends the connections;
\* then self._pool = None
close_done(t, timeout) ==
    /\ pc[t] = "closing"
    /\ IF timeout
       THEN \E k \in Conns : k[1] = cur[t].pool /\ connSt[k] \in {"out", "dead"}
       ELSE \A k \in Conns : k[1] = cur[t].pool => connSt[k] # "out"
    /\ IF ~timeout
       THEN /\ poolSt' = [poolSt EXCEPT ![cur[t].pool] = "closed"]
            /\ _pool' = pool_after_close
            /\ Return(t, cur[t], "none", {})
            /\ UNCHANGED <<connSt, inTx, pending>>
       ELSE IF _pool = NoPool
       THEN /\ Return(t, cur[t], "AttributeError", {})
            /\ UNCHANGED <<_pool, poolSt, connSt, inTx, pending>>
       ELSE /\ poolSt' = [poolSt EXCEPT ![_pool] = "closed"]
            /\ connSt' = [k \in Conns |->
                            IF k[1] = _pool /\ connSt[k] = "out"
                            THEN "dead" ELSE connSt[k]]
            /\ inTx' = [k \in Conns |-> IF k[1] = _pool THEN FALSE ELSE inTx[k]]
            /\ pending' = [k \in Conns |-> IF k[1] = _pool THEN {} ELSE pending[k]]
            /\ _pool' = pool_after_close
            /\ Return(t, cur[t], "none", {})
    /\ UNCHANGED <<committed, dbExists, max_size, reg, ctxs, stack>>

----
\* the state of a transaction context object: idle, active or done
CtxState(c) ==
    IF ctxs[c].done THEN "done"
    ELSE IF ctxs[c].connection # NoConn THEN "active" ELSE "idle"

Taxonomy == {"OperationalError", "IntegrityError", "TransactionManagementError",
             "DBConnectionError"}

\* C1: in_transaction() called inside an open context, whose binding the
\* registry holds, fails with TransactionManagementError, makes no context
\* and leaves the binding and the connection as they were.
C1_NestedIsTransactionManagementError ==
    (res.op = "in_transaction" /\ stack[res.task] # << >>
        /\ reg[res.task] = ctxs[Top(res.task)].connection)
        => /\ res.err = "TransactionManagementError"
           /\ res.ctx = 0
           /\ reg[res.task] # NoConn

\* C2: when the body raised, __aexit__ has invoked rollback and never commit,
\* the body's error is the one that leaves it, the registry holds no binding
\* for the name afterwards and the connection went back to the pool once.
C2_BodyRaisedRolledBackAndUnbound ==
    (res.op = "aexit" /\ ctxs[res.ctx].nrollback > 0)
        => /\ res.err = "BodyError"
           /\ ctxs[res.ctx].nrollback = 1 /\ ctxs[res.ctx].ncommit = 0
           /\ ctxs[res.ctx].nrelease = 1
           /\ reg[res.task] = NoConn

\* C3: when the body completed normally, __aexit__ has invoked commit and
\* never rollback, the registry holds no binding for the name afterwards and
\* the connection went back to the pool.
C3_BodyNormalCommittedAndUnbound ==
    (res.op = "aexit" /\ ctxs[res.ctx].nrollback = 0)
        => /\ ctxs[res.ctx].ncommit = 1
           /\ ctxs[res.ctx].nrelease = 1
           /\ reg[res.task] = NoConn

\* C4: when commit fails, the error leaves __aexit__ and the exit actions
\* have run all the same: done, the local reference cleared, the binding
\* reset to the token, the connection released exactly once.
C4_CommitFailureStillCleansUp ==
    (res.op = "aexit" /\ res.err = "DriverError")
        => /\ ctxs[res.ctx].done
           /\ ctxs[res.ctx].connection = NoConn
           /\ reg[res.task] = ctxs[res.ctx].token
           /\ ctxs[res.ctx].nrelease = 1

\* C5: a context invokes commit or rollback at most once in all, never both;
\* one that was not entered successfully invokes neither, and one whose
\* __aexit__ has ended, or that is done, has invoked exactly one.
C5_ExactlyOneCommitOrRollback ==
    /\ \A c \in Ctxs :
        /\ ctxs[c].ncommit + ctxs[c].nrollback <= 1
        /\ ctxs[c].done => ctxs[c].ncommit + ctxs[c].nrollback = 1
        /\ CtxState(c) = "idle" => ctxs[c].ncommit + ctxs[c].nrollback = 0
        /\ ctxs[c].nrelease <= ctxs[c].ncommit + ctxs[c].nrollback
        /\ (\E t \in Tasks : \E i \in 1..Len(stack[t]) : stack[t][i] = c)
              => ctxs[c].nrelease = 0
    /\ res.op = "aexit" => ctxs[res.ctx].ncommit + ctxs[res.ctx].nrollback = 1

\* a context whose commit failed was entered again, and that was refused
C5_Witness ==
    /\ res.op = "aenter" /\ res.err = "Exception"
    /\ ctxs[res.ctx].transaction = "failed"
    /\ ctxs[res.ctx].ncommit = 1

\* C6: a context only goes idle -> active -> done, and __aenter__ on a
\* context that is active or done raises and changes nothing: no connection
\* leaves the pool, no transaction starts, the registry stays as it was.
C6_Transition(c) ==
    \/ CtxState(c)' = CtxState(c)
    \/ CtxState(c) = "idle" /\ CtxState(c)' = "active"
    \/ CtxState(c) = "active" /\ CtxState(c)' = "done"

\* this step is task t calling __aenter__ of context c
C6_Attempt(t, c) ==
    /\ pc[t] = "idle"
    /\ \/ pc'[t] = "enter_acquire" /\ cur'[t].ctx = c
       \/ res'.op = "aenter" /\ res'.task = t /\ res'.ctx = c

C6_RefusedEnter(t, c) ==
    (C6_Attempt(t, c) /\ CtxState(c) # "idle")
        => /\ res'.err = "Exception"
           /\ pc'[t] = "idle"
           /\ UNCHANGED <<connSt, inTx, pending, committed, reg, ctxs, stack>>

C6_SingleUse ==
    [][ /\ \A c \in Ctxs : C6_Transition(c)
        /\ \A t \in Tasks, c \in Ctxs : C6_RefusedEnter(t, c) ]_vars

\* __aenter__ on a done context was refused
C6_Witness ==
    /\ res.op = "aenter" /\ res.err = "Exception"
    /\ CtxState(res.ctx) = "done"

\* how a query operation is recorded: by its name once its driver call was
\* made, as "execute" when it ended before
QueryEvents == QueryOps \cup {"execute"}

\* C7: inside an open context a query operation runs on that context's
\* connection and takes none from the pool; with no binding it takes one
\* pooled connection and gives it back; no connection is left checked out.
C7_QueriesRunOnBoundConnection ==
    /\ \A t \in Tasks :
        (pc[t] = "q_run" /\ stack[t] # << >>)
            => (cur[t].conn = ctxs[Top(t)].connection /\ ~cur[t].pooled)
    /\ (res.op \in QueryEvents /\ reg[res.task] = NoConn)
            => res.err # "AttributeError"
    /\ \A k \in Conns :
        connSt[k] = "out"
            => \/ \E t \in Tasks : cur[t].conn = k
               \/ \E c \in Ctxs : ctxs[c].connection = k

\* C8: a query operation ends with its result, a taxonomy error or the
\* driver's error, also when it started with no pool.
C8_QueryNeverUsesUnsetPool ==
    res.op \in QueryEvents => res.err \in {"none", "DriverError"} \cup Taxonomy

\* C9: the binding a task sees is one of its own contexts' connections, the
\* connection a query is routed to follows the task's own binding alone,
\* in_transaction() is refused exactly on the caller's own binding, and only
\* a task's own __aenter__ and __aexit__ change its binding.
C9_Inv ==
    \A t \in Tasks :
        /\ reg[t] # NoConn
              => \E c \in Ctxs : ctxs[c].owner = t /\ ctxs[c].connection = reg[t]
        /\ (pc[t] = "q_run" /\ ~cur[t].pooled) => cur[t].conn = reg[t]
        /\ (pc[t] = "q_run" /\ cur[t].pooled) => reg[t] = NoConn
        /\ pc[t] = "q_acquire" => reg[t] = NoConn

C9_Step ==
    \A t \in Tasks :
        /\ reg'[t] # reg[t]
              => pc[t] \in {"enter_acquire", "exit_rollback", "exit_commit"}
        /\ (res'.op = "in_transaction" /\ res'.task = t)
              => (res'.err = "none" <=> reg[t] = NoConn)

C9_RegistryIsolated == [](C9_Inv) /\ [][C9_Step]_vars

\* task a is inside a transaction and task b's query runs on a pooled
\* connection of its own
C9_Witness ==
    \E a, b \in Tasks :
        /\ a # b
        /\ stack[a] # << >> /\ reg[a] # NoConn
        /\ pc[b] = "q_run" /\ cur[b].pooled /\ cur[b].conn # reg[a]

\* C10: a read inside an open context sees what the context wrote; a row
\* written inside a context is committed only by that context's commit, and
\* a read of another task sees it only then.
C10_ReadYourWritesAndIsolation ==
    /\ (res.op \in ReadOps /\ res.err = "none" /\ Top(res.task) # 0
            /\ ctxs[Top(res.task)].wrote)
          => Top(res.task) \in res.rows
    /\ \A c \in committed : ctxs[c].transaction = "committed"
    /\ res.op \in ReadOps
          => \A c \in res.rows :
                ctxs[c].owner = res.task \/ ctxs[c].transaction = "committed"

\* C11: close() called with the pool unset returns at once, without an
\* error and with the pool still unset; close() called with the pool set, no
\* other call having replaced or cleared self._pool while it waited, ends
\* without an error and with the pool unset, whether the pool closed or had
\* to be terminated; an init() that then creates a pool creates one that did
\* not exist before, open and with every connection in it.
C11_CloseEnds(t) ==
    (res'.op = "close" /\ res'.task = t /\ (pc[t] = "closing" => _pool = cur[t].pool))
        => /\ res'.err = "none"
           /\ _pool' = NoPool
           /\ pc[t] = "idle" => UNCHANGED <<poolSt, connSt>>

C11_InitCreates(t) ==
    (res'.op = "init" /\ res'.task = t /\ res'.err = "none" /\ pc[t] # "idle")
        => /\ _pool' # NoPool
           /\ poolSt[_pool'] = "none" /\ poolSt'[_pool'] = "open"
           /\ \A k \in Conns : k[1] = _pool' => connSt'[k] = "free"

C11_CloseIdempotent ==
    [][\A t \in Tasks : C11_CloseEnds(t) /\ C11_InitCreates(t)]_vars

\* an init() after a close() has created a second pool
C11_Witness ==
    /\ res.op = "init" /\ res.err = "none"
    /\ _pool # NoPool /\ poolSt[_pool] = "open"
    /\ \E p \in PoolIds : poolSt[p] = "closed"

\* C12: init() either returns with the pool set or raises
\* DBConnectionError, whatever made the creation fail.
C12_FailureIsDBConnectionError ==
    res.op = "init"
        => /\ res.err = "none" => _pool # NoPool
           /\ res.err # "none" => res.err = "DBConnectionError"

C14_BeginsWithUpdateOrDelete == {Q_UPDATE, Q_DELETE}

C14_Count(status) ==
    CASE status = S_UPDATE_2 -> 2
      [] status = S_DELETE_12 -> 12
      [] status = S_UPDATE -> 0
      [] status = S_UPDATE_x -> 0
      [] status = S_UPDATE__2 -> 0

C14_DualResultShape ==
    /\ (res.op = "execute_query_update" /\ res.err = "none")
          => /\ res.query \in C14_BeginsWithUpdateOrDelete
             /\ res.rows = {}
             /\ res.n = C14_Count(res.status)
    /\ (res.op = "execute_query_select" /\ res.err = "none")
          => /\ res.query \in Queries \ C14_BeginsWithUpdateOrDelete
             /\ res.n = Cardinality(res.rows)
             /\ res.rows \subseteq Ctxs

\* a DELETE whose status string says 12 returned (12, [])
C14_Witness ==
    /\ res.op = "execute_query_update" /\ res.err = "none"
    /\ res.query = Q_DELETE /\ res.status = S_DELETE_12
    /\ res.n = 12 /\ res.rows = {}

\* a text that does not begin with UPDATE or DELETE returned its rows and
\* their number
C14_WitnessRows ==
    /\ res.op = "execute_query_select" /\ res.err = "none"
    /\ res.query = Q_sp_UPDATE /\ res.n = 1 /\ res.rows # {}

\* C15: the driver call of a query operation that fails leaves the operation
\* as OperationalError for a syntax or access failure, IntegrityError for a
\* constraint violation, TransactionManagementError for an invalid
\* transaction state, and as the driver's own error otherwise; a failed
\* operation returns no rows and no count; the pooled connection the
\* operation acquired is not checked out once it ended, and a transacted
\* connection stays as it was.
C15_Translation(outcome) ==
    CASE outcome = "ok" -> "none"
      [] outcome = "syntax" -> "OperationalError"
      [] outcome = "integrity" -> "IntegrityError"
      [] outcome = "txstate" -> "TransactionManagementError"
      [] outcome = "other" -> "DriverError"

C15_Step(t) ==
    (pc[t] = "q_run" /\ pc'[t] = "idle")
        => /\ res'.task = t /\ res'.op \in QueryOps
           /\ res'.outcome \in DriverOutcomes
           /\ res'.err = C15_Translation(res'.outcome)
           /\ res'.err # "none" => res'.rows = {} /\ res'.n = 0
           /\ cur[t].pooled => connSt'[cur[t].conn] # "out"
           /\ ~cur[t].pooled => connSt'[cur[t].conn] = connSt[cur[t].conn]

C15_FailureTranslatedAndReleased == [][\A t \in Tasks : C15_Step(t)]_vars

\* an insert on a pooled connection violated a constraint: IntegrityError,
\* and every connection is back in the pool
C15_Witness ==
    /\ res.op = "execute_insert" /\ res.outcome = "integrity"
    /\ res.err = "IntegrityError"
    /\ _pool # NoPool /\ poolSt[_pool] = "open"
    /\ \A k \in Conns : connSt[k] = "free"

\* C16: with max_size = 1, two query operations outside any transaction
\* never hold the same connection at once; an acquisition never fails while
\* the pool is open with its connection out, it waits; and an operation
\* that waits for the connection or holds it ends.
C16_Exclusive ==
    \A a, b \in Tasks :
        (a # b /\ pc[a] = "q_run" /\ pc[b] = "q_run"
            /\ cur[a].pooled /\ cur[b].pooled)
            => cur[a].conn # cur[b].conn

C16_NoFailureWhenExhausted ==
    \A t \in Tasks :
        (pc[t] = "q_acquire" /\ pc'[t] = "idle")
            => ~(poolSt[cur[t].pool] = "open" /\ FreeConns(cur[t].pool) = {})

C16_Serialized ==
    /\ [](max_size = 1 => C16_Exclusive)
    /\ [][max_size = 1 => C16_NoFailureWhenExhausted]_vars
    /\ \A t \in Tasks :
          (max_size = 1 /\ pc[t] \in {"q_acquire", "q_run"}) ~> (pc[t] = "idle")

\* one operation holds the only connection of the pool and the other waits
\* for it
C16_Witness ==
    \E a, b \in Tasks :
        /\ max_size = 1
        /\ pc[a] = "q_run" /\ cur[a].pooled
        /\ pc[b] = "q_acquire" /\ cur[b].pool = cur[a].pool
        /\ FreeConns(cur[b].pool) = {}

\* the contexts task t has entered and not yet exited: those of the
\* async-with blocks it is inside, and the one whose __aenter__ or __aexit__
\* it is suspended in
ActiveCtxs(t) ==
    {stack[t][i] : i \in 1..Len(stack[t])}
        \cup (IF pc[t] \in {"enter_start", "exit_rollback", "exit_commit"}
              THEN {cur[t].ctx} ELSE {})

\* C17: a task has at most one context entered and not yet exited, also
\* when it obtained several from in_transaction() before entering any.
C17_AtMostOneActiveContext ==
    \A t \in Tasks : Cardinality(ActiveCtxs(t)) <= 1

\* C18: the connection the registry binds for a task is the connection of
\* a context the task has entered and not yet exited, and it has not gone
\* back to the pool.
C18_BindingIsLiveCheckedOut ==
    \A t \in Tasks :
        reg[t] # NoConn
            => /\ connSt[reg[t]] # "free"
               /\ \E c \in ActiveCtxs(t) : ctxs[c].connection = reg[t]

\* the part of C18 on the order of __aexit__: no binding, and no query
\* routed by one, is to a connection that is back in its pool
C18_NoBindingToReleased ==
    \A t \in Tasks :
        /\ reg[t] # NoConn => connSt[reg[t]] # "free"
        /\ (pc[t] = "q_run" /\ ~cur[t].pooled) => connSt[cur[t].conn] # "free"

\* C19: when __aenter__ fails, no binding for the name is left in the
\* registry and the connection it acquired, if any, is not left checked out.
C19_FailedEnterLeavesNothing ==
    (res.op = "aenter" /\ res.err \in {"DriverError", "AttributeError"})
        => /\ reg[res.task] = NoConn
           /\ ctxs[res.ctx].connection # NoConn
                 => connSt[ctxs[res.ctx].connection] # "out"

\* C20: whatever the interleaving of init() calls, at most one pool is open
\* and it is the one self._pool refers to: none was created and then
\* overwritten, left open with no reference to close it by.
C20_OnePoolCreatedAndKept ==
    \A p \in PoolIds : poolSt[p] = "open" => _pool = p

----
\* the transactions are followed within the life of one pool: no pool was
\* created yet and none is being created
OnePool == _pool # NoPool \/ (UnusedPools = PoolIds /\ Creating = {})

Next ==
    \E t \in Tasks :
        \/ in_transaction(t)
        \/ \E c \in Ctxs : aenter(t, c)
        \/ aenter_acquired(t)
        \/ aenter_acquire_failed(t)
        \/ \E ok \in BOOLEAN : aenter_started(t, ok)
        \/ \E raised \in BOOLEAN : aexit(t, raised)
        \/ \E ok \in BOOLEAN : aexit_rolledback(t, ok)
        \/ \E ok \in BOOLEAN : aexit_committed(t, ok)
        \/ aexit_released(t)
        \/ execute(t)
        \/ execute_acquired(t)
        \/ execute_acquire_failed(t)
        \/ \E op \in QueryOps, outcome \in DriverOutcomes :
               \E query \in QueriesOf(op), status \in StatusesOf(op, outcome) :
                   execute_run(t, op, query, status, outcome)
        \/ OnePool /\ init(t)
        \/ \E outcome \in {"ok", "nodb", "fail"} : create_pool_done(t, outcome)
        \/ \E ok \in BOOLEAN : db_create_done(t, ok)
        \/ \E ok \in BOOLEAN : create_pool_retry_done(t, ok)
        \/ close(t)
        \/ \E timeout \in BOOLEAN : close_done(t, timeout)

Spec == Init /\ [][Next]_vars

\* the engine without transaction contexts: pools come and go, queries run
\* on pooled connections
InitEngine == InitWith(1..MaxSize)

NextEngine ==
    \E t \in Tasks :
        \/ execute(t)
        \/ execute_acquired(t)
        \/ execute_acquire_failed(t)
        \/ \E op \in QueryOps, outcome \in DriverOutcomes :
               \E query \in QueriesOf(op), status \in StatusesOf(op, outcome) :
                   execute_run(t, op, query, status, outcome)
        \/ init(t)
        \/ \E outcome \in {"ok", "nodb", "fail"} : create_pool_done(t, outcome)
        \/ \E ok \in BOOLEAN : db_create_done(t, ok)
        \/ \E ok \in BOOLEAN : create_pool_retry_done(t, ok)
        \/ close(t)
        \/ \E timeout \in BOOLEAN : close_done(t, timeout)

SpecEngine == InitEngine /\ [][NextEngine]_vars

\* an engine that is initialised and queried and not closed, the event loop
\* running every task that can run: a driver call that was made returns, and
\* a task waiting for a connection gets one that keeps coming back (the
\* pool's queue wakes its waiters in the order they came)
NextQueries ==
    \E t \in Tasks :
        \/ execute(t)
        \/ execute_acquired(t)
        \/ execute_acquire_failed(t)
        \/ \E op \in QueryOps, outcome \in DriverOutcomes :
               \E query \in QueriesOf(op), status \in StatusesOf(op, outcome) :
                   execute_run(t, op, query, status, outcome)
        \/ init(t)
        \/ \E outcome \in {"ok", "nodb", "fail"} : create_pool_done(t, outcome)
        \/ \E ok \in BOOLEAN : db_create_done(t, ok)
        \/ \E ok \in BOOLEAN : create_pool_retry_done(t, ok)

FairQueries ==
    \A t \in Tasks :
        /\ SF_vars(execute_acquired(t))
        /\ WF_vars(\E op \in QueryOps, outcome \in DriverOutcomes :
                     \E query \in QueriesOf(op), status \in StatusesOf(op, outcome) :
                         execute_run(t, op, query, status, outcome))

SpecQueries == InitEngine /\ [][NextQueries]_vars /\ FairQueries

====
